---------------------------- MODULE Spec2Model ----------------------------
(* Ticket NLP service (src/python/app.py): the /classify request handler,   *)
(* its keyword fallback, the label normalizer, the estimator and the JSON    *)
(* extraction of the model reply.                                            *)
(*                                                                           *)
(* A Python str is a sequence of one-character strings.  The character       *)
(* U+2019 (right single quotation mark) is written "U+2019"; tab and line    *)
(* feed are "\t" and "\n".                                                   *)
EXTENDS Integers, Sequences, FiniteSets

(***************************************************************************)
(* str methods and operators used by app.py                                *)
(***************************************************************************)

UPPERCASE == <<"A", "B", "C", "D", "E", "F", "G", "H", "I", "J", "K", "L", "M", "N", "O", "P", "Q", "R", "S", "T", "U", "V", "W", "X", "Y", "Z">>

LOWERCASE == <<"a", "b", "c", "d", "e", "f", "g", "h", "i", "j", "k", "l", "m", "n", "o", "p", "q", "r", "s", "t", "u", "v", "w", "x", "y", "z">>

\* str.lower() on one character
LowerChar(c) ==
    IF \E i \in 1..Len(UPPERCASE) : UPPERCASE[i] = c
    THEN LOWERCASE[CHOOSE i \in 1..Len(UPPERCASE) : UPPERCASE[i] = c]
    ELSE c

\* str.lower()
Lower(s) == [i \in 1..Len(s) |-> LowerChar(s[i])]

\* the characters str.strip() removes (of those the inputs are made of)
WHITESPACE == {" ", "\t", "\n", "\r"}

\* str.strip()
Strip(s) ==
    IF \A i \in 1..Len(s) : s[i] \in WHITESPACE
    THEN << >>
    ELSE LET a == CHOOSE i \in 1..Len(s) :
                      /\ s[i] \notin WHITESPACE
                      /\ \A j \in 1..(i - 1) : s[j] \in WHITESPACE
             b == CHOOSE i \in 1..Len(s) :
                      /\ s[i] \notin WHITESPACE
                      /\ \A j \in (i + 1)..Len(s) : s[j] \in WHITESPACE
         IN  SubSeq(s, a, b)

\* k in t
Contains(k, t) ==
    \E i \in 0..(Len(t) - Len(k)) : SubSeq(t, i + 1, i + Len(k)) = k

\* any(k in t for k in keywords)
AnyIn(keywords, t) == \E n \in 1..Len(keywords) : Contains(keywords[n], t)

(***************************************************************************)
(* Allowed labels and the estimate table                                   *)
(***************************************************************************)

LOW == <<"l", "o", "w">>

MEDIUM == <<"m", "e", "d", "i", "u", "m">>

HIGH == <<"h", "i", "g", "h">>

ACCOUNT == <<"a", "c", "c", "o", "u", "n", "t">>

HARDWARE == <<"h", "a", "r", "d", "w", "a", "r", "e">>

NETWORK == <<"n", "e", "t", "w", "o", "r", "k">>

SOFTWARE == <<"s", "o", "f", "t", "w", "a", "r", "e">>

OTHER_DEPT == <<"o", "t", "h", "e", "r">>

PRIORITIES == {LOW, MEDIUM, HIGH}

DEPARTMENTS == {ACCOUNT, HARDWARE, NETWORK, SOFTWARE, OTHER_DEPT}

BASE_MIN ==
    [d \in DEPARTMENTS |->
        CASE d = ACCOUNT  -> 45
          [] d = NETWORK  -> 90
          [] d = SOFTWARE -> 120
          [] d = HARDWARE -> 180
          [] d = OTHER_DEPT -> 60]

\* PRIO_MULT holds 0.75, 1.0 and 1.5: exact binary fractions, kept here as
\* numerators over MULT_DEN.
MULT_DEN == 4

PRIO_MULT ==
    [p \in PRIORITIES |->
        CASE p = LOW    -> 3
          [] p = MEDIUM -> 4
          [] p = HIGH   -> 6]

\* a rounding that drops the fraction, as int(n / d) would
Round_truncates(n, d) == n \div d

\* Python 3 round(n / d) for n >= 0, d > 0: to nearest, ties to the even integer
Round(n, d) ==
    LET q == n \div d
        r == n % d
    IN  IF 2 * r < d THEN q
        ELSE IF 2 * r > d THEN q + 1
        ELSE IF q % 2 = 0 THEN q ELSE q + 1

estimate_minutes(department, priority) ==
    LET base == IF department \in DOMAIN BASE_MIN
                THEN BASE_MIN[department] ELSE BASE_MIN[OTHER_DEPT]
        mult == IF priority \in DOMAIN PRIO_MULT
                THEN PRIO_MULT[priority] ELSE MULT_DEN
    IN  Round(base * mult, MULT_DEN)

(***************************************************************************)
(* The keyword fallback                                                    *)
(***************************************************************************)

ACCOUNT_KEYWORDS ==
    << <<"l", "o", "g", "i", "n">>, <<"p", "a", "s", "s", "w", "o", "r", "d">>, <<"2", "f", "a">>, <<"a", "c", "c", "o", "u", "n", "t">>, <<"s", "i", "g", "n", "i", "n">>, <<"r", "e", "s", "e", "t">> >>

NETWORK_KEYWORDS ==
    << <<"w", "i", "f", "i">>, <<"n", "e", "t", "w", "o", "r", "k">>, <<"v", "p", "n">>, <<"l", "a", "t", "e", "n", "c", "y">>, <<"i", "n", "t", "e", "r", "n", "e", "t">>, <<"d", "n", "s">> >>

HARDWARE_KEYWORDS ==
    << <<"l", "a", "p", "t", "o", "p">>, <<"k", "e", "y", "b", "o", "a", "r", "d">>, <<"m", "o", "n", "i", "t", "o", "r">>, <<"p", "r", "i", "n", "t", "e", "r">>, <<"d", "i", "s", "k">>,
       <<"h", "a", "r", "d", "w", "a", "r", "e">>, <<"b", "a", "t", "t", "e", "r", "y">> >>

SOFTWARE_KEYWORDS ==
    << <<"i", "n", "s", "t", "a", "l", "l">>, <<"c", "r", "a", "s", "h">>, <<"e", "r", "r", "o", "r">>, <<"b", "u", "g">>, <<"u", "p", "d", "a", "t", "e">>, <<"w", "i", "n", "d", "o", "w", "s">>,
       <<"m", "a", "c", "o", "s">>, <<"l", "i", "n", "u", "x">>, <<"a", "p", "p">> >>

HIGH_KEYWORDS ==
    << <<"c", "a", "n", "'", "t", " ", "w", "o", "r", "k">>, <<"c", "a", "n", "n", "o", "t", " ", "w", "o", "r", "k">>, <<"d", "o", "w", "n">>, <<"o", "u", "t", "a", "g", "e">>, <<"u", "r", "g", "e", "n", "t">>,
       <<"s", "e", "c", "u", "r", "i", "t", "y">>, <<"d", "a", "t", "a", " ", "l", "o", "s", "s">>, <<"w", "o", "n", "'", "t", " ", "b", "o", "o", "t">>, <<"w", "o", "n", "U+2019", "t", " ", "b", "o", "o", "t">> >>

MEDIUM_KEYWORDS ==
    << <<"s", "l", "o", "w">>, <<"s", "o", "m", "e", "t", "i", "m", "e", "s">>, <<"i", "n", "t", "e", "r", "m", "i", "t", "t", "e", "n", "t">>, <<"d", "e", "g", "r", "a", "d", "e", "d">> >>

\* the department rules with the network group tried before the account group
FallbackDept_network_first(t) ==
    IF AnyIn(NETWORK_KEYWORDS, t) THEN NETWORK
    ELSE IF AnyIn(ACCOUNT_KEYWORDS, t) THEN ACCOUNT
    ELSE IF AnyIn(HARDWARE_KEYWORDS, t) THEN HARDWARE
    ELSE IF AnyIn(SOFTWARE_KEYWORDS, t) THEN SOFTWARE
    ELSE OTHER_DEPT

\* the department rules of _fallback_classify, on the lower-cased text
FallbackDept(t) ==
    IF AnyIn(ACCOUNT_KEYWORDS, t) THEN ACCOUNT
    ELSE IF AnyIn(NETWORK_KEYWORDS, t) THEN NETWORK
    ELSE IF AnyIn(HARDWARE_KEYWORDS, t) THEN HARDWARE
    ELSE IF AnyIn(SOFTWARE_KEYWORDS, t) THEN SOFTWARE
    ELSE OTHER_DEPT

\* the priority rules of _fallback_classify, on the lower-cased text
FallbackPrio(t) ==
    IF AnyIn(HIGH_KEYWORDS, t) THEN HIGH
    ELSE IF AnyIn(MEDIUM_KEYWORDS, t) THEN MEDIUM
    ELSE LOW

\* the JSON body of a classification
Body(prio, dept, minutes) ==
    [priority |-> prio, department |-> dept, estimated_minutes |-> minutes]

_fallback_classify(text) ==
    LET t    == Lower(text)
        dept == FallbackDept(t)
        prio == FallbackPrio(t)
    IN  Body(prio, dept, estimate_minutes(dept, prio))

(***************************************************************************)
(* json.loads, for the JSON texts the replies below are made of: objects,  *)
(* arrays, strings without escapes, integers, null, true and false         *)
(***************************************************************************)

\* a decoded JSON value: t is its Python type; s the characters of a str or
\* the digits of an int; m the items of a list or the (key, value) pairs of
\* a dict in source order
JValue(t, s, m) == [t |-> t, s |-> s, m |-> m]

JNone == JValue("None", << >>, << >>)

JFail == [ok |-> FALSE, v |-> JNone, i |-> 0]

JOk(v, i) == [ok |-> TRUE, v |-> v, i |-> i]

DIGITS == {"0", "1", "2", "3", "4", "5", "6", "7", "8", "9"}

\* characters json rejects inside a string literal (strict mode)
CONTROL == {"\t", "\n", "\r"}

RECURSIVE SkipWs(_, _)
\* json.decoder WHITESPACE.match(s, i).end()
SkipWs(s, i) ==
    IF i <= Len(s) /\ s[i] \in WHITESPACE THEN SkipWs(s, i + 1) ELSE i

\* s[i - 1 : i - 1 + len(word)] == word
StartsWith(s, i, word) ==
    /\ i + Len(word) - 1 <= Len(s)
    /\ SubSeq(s, i, i + Len(word) - 1) = word

\* py_scanstring from the opening quote at i
ParseString(s, i) ==
    LET ends == {j \in (i + 1)..Len(s) : s[j] = "\"" \/ s[j] \in CONTROL}
    IN  IF ends = {} THEN JFail
        ELSE LET j == CHOOSE e \in ends : \A f \in ends : e <= f
             IN  IF s[j] = "\""
                 THEN JOk(JValue("str", SubSeq(s, i + 1, j - 1), << >>), j + 1)
                 ELSE JFail

RECURSIVE DigitsEnd(_, _)
\* the index after the run of digits that starts at i
DigitsEnd(s, i) ==
    IF i <= Len(s) /\ s[i] \in DIGITS THEN DigitsEnd(s, i + 1) ELSE i

\* NUMBER_RE.match(s, i): -?(0|[1-9][0-9]*)
ParseNumber(s, i) ==
    LET d == IF s[i] = "-" THEN i + 1 ELSE i
    IN  IF d > Len(s) \/ s[d] \notin DIGITS THEN JFail
        ELSE LET e == IF s[d] = "0" THEN d + 1 ELSE DigitsEnd(s, d)
             IN  JOk(JValue("int", SubSeq(s, d, e - 1), << >>), e)

RECURSIVE ParseValue(_, _), ParseItems(_, _, _), ParseMembers(_, _, _)

\* JSONArray after "[": i is the index of the next item
ParseItems(s, i, items) ==
    LET r == ParseValue(s, i)
    IN  IF ~r.ok THEN JFail
        ELSE LET j == SkipWs(s, r.i)
                 got == Append(items, r.v)
             IN  IF j > Len(s) THEN JFail
                 ELSE IF s[j] = "]" THEN JOk(JValue("list", << >>, got), j + 1)
                 ELSE IF s[j] = "," THEN ParseItems(s, SkipWs(s, j + 1), got)
                 ELSE JFail

\* JSONObject after "{": i is the index where the next key must start
ParseMembers(s, i, members) ==
    IF i > Len(s) \/ s[i] # "\"" THEN JFail
    ELSE LET k == ParseString(s, i)
         IN  IF ~k.ok THEN JFail
             ELSE LET c == SkipWs(s, k.i)
                  IN  IF c > Len(s) \/ s[c] # ":" THEN JFail
                      ELSE LET r == ParseValue(s, SkipWs(s, c + 1))
                           IN  IF ~r.ok THEN JFail
                               ELSE LET j == SkipWs(s, r.i)
                                        got == Append(members, <<k.v.s, r.v>>)
                                    IN  IF j > Len(s) THEN JFail
                                        ELSE IF s[j] = "}"
                                        THEN JOk(JValue("dict", << >>, got), j + 1)
                                        ELSE IF s[j] = ","
                                        THEN ParseMembers(s, SkipWs(s, j + 1), got)
                                        ELSE JFail

\* scan_once(s, i)
ParseValue(s, i) ==
    IF i > Len(s) THEN JFail
    ELSE IF s[i] = "\"" THEN ParseString(s, i)
    ELSE IF s[i] = "{"
    THEN LET j == SkipWs(s, i + 1)
         IN  IF j <= Len(s) /\ s[j] = "}"
             THEN JOk(JValue("dict", << >>, << >>), j + 1)
             ELSE ParseMembers(s, j, << >>)
    ELSE IF s[i] = "["
    THEN LET j == SkipWs(s, i + 1)
         IN  IF j <= Len(s) /\ s[j] = "]"
             THEN JOk(JValue("list", << >>, << >>), j + 1)
             ELSE ParseItems(s, j, << >>)
    ELSE IF StartsWith(s, i, <<"n", "u", "l", "l">>) THEN JOk(JNone, i + 4)
    ELSE IF StartsWith(s, i, <<"t", "r", "u", "e">>)
    THEN JOk(JValue("bool", <<"t", "r", "u", "e">>, << >>), i + 4)
    ELSE IF StartsWith(s, i, <<"f", "a", "l", "s", "e">>)
    THEN JOk(JValue("bool", << >>, << >>), i + 5)
    ELSE IF s[i] \in DIGITS \cup {"-"} THEN ParseNumber(s, i)
    ELSE JFail

\* json.loads(payload): ok is FALSE where json.loads raises JSONDecodeError
json_loads(payload) ==
    LET r == ParseValue(payload, SkipWs(payload, 1))
    IN  IF r.ok /\ SkipWs(payload, r.i) > Len(payload)
        THEN [ok |-> TRUE, v |-> r.v]
        ELSE [ok |-> FALSE, v |-> JNone]

\* bool(v) of a decoded value
Truthy(v) ==
    CASE v.t = "None" -> FALSE
      [] v.t = "str"  -> v.s # << >>
      [] v.t = "int"  -> v.s # <<"0">>
      [] v.t = "bool" -> v.s # << >>
      [] v.t = "list" -> v.m # << >>
      [] v.t = "dict" -> v.m # << >>

\* parsed.get(key) on a dict: the last pair with that key, None when absent
DictGet(parsed, key) ==
    LET at == {n \in 1..Len(parsed.m) : parsed.m[n][1] = key}
    IN  IF at = {} THEN JNone
        ELSE parsed.m[CHOOSE n \in at : \A o \in at : o <= n][2]

(***************************************************************************)
(* The normalizer and the extraction of the payload                        *)
(***************************************************************************)

\* _normalize raises AttributeError on a truthy value that is not a str
NormalizeRaises(value) == Truthy(value) /\ value.t # "str"

\* a normalizer that returns what it was given without the membership test
_normalize_unchecked(value, allowed, default) ==
    Lower(Strip(IF Truthy(value) THEN value.s ELSE << >>))

\* a normalizer that lower-cases but does not trim
_normalize_untrimmed(value, allowed, default) ==
    LET v == Lower(IF Truthy(value) THEN value.s ELSE << >>)
    IN  IF v \in allowed THEN v ELSE default

_normalize(value, allowed, default) ==
    LET v == Lower(Strip(IF Truthy(value) THEN value.s ELSE << >>))
    IN  IF v \in allowed THEN v ELSE default

\* re.search(r"\{[\s\S]*\}", raw): the match runs from the first "{" to the
\* last "}" after it; << >> stands for no match only through HasMatch
HasMatch(raw) ==
    \E a \in 1..Len(raw) : raw[a] = "{" /\ \E b \in (a + 1)..Len(raw) : raw[b] = "}"

MatchGroup0(raw) ==
    LET a == CHOOSE i \in 1..Len(raw) :
                 raw[i] = "{" /\ \A j \in 1..(i - 1) : raw[j] # "{"
        b == CHOOSE i \in 1..Len(raw) :
                 raw[i] = "}" /\ \A j \in (i + 1)..Len(raw) : raw[j] # "}"
    IN  SubSeq(raw, a, b)

\* payload = m.group(0) if m else raw
Payload(raw) == IF HasMatch(raw) THEN MatchGroup0(raw) ELSE raw

(***************************************************************************)
(* Inputs: request bodies, headers, and replies of the model               *)
(***************************************************************************)

\* Python None, and a value that is present
None == << >>

Some(v) == <<v>>

\* x or ""
OrEmpty(x) == IF x = None THEN << >> ELSE x[1]

MaxMessageWords == 1

MaxTrailers == 1

SECRET == <<"s", "3", "c", "r", "e", "t">>

\* values of the CLASSIFIER_KEY environment variable
KEYS == {None, Some(SECRET)}

\* values of the x-classifier-key header
HEADERS == {None, Some(SECRET)}

\* values of the "title" field of the request body
TITLES ==
    {None} \cup
    { Some(s) : s \in
        { << >>, <<" ", " ">>, <<"V", "P", "N", " ", "i", "s", " ", "d", "o", "w", "n", ",">>, <<"p", "a", "s", "s", "w", "o", "r", "d">>, <<"P", "r", "i", "n", "t", "e", "r", " ", "j", "a", "m">>,
          <<"h", "a", "p", "p", "y">>, <<"h", "e", "l", "l", "o">>, <<"c", "a", "n", "U+2019", "t", " ", "w", "o", "r", "k">>, <<"c", "a", "n", "'", "t", " ", "w", "o", "r", "k">>,
          <<"w", "o", "n", "U+2019", "t", " ", "b", "o", "o", "t">>, <<" ", "c", "r", "a", "s", "h", "\t">> } }

MESSAGE_WORDS == { <<"u", "r", "g", "e", "n", "t">>, <<"r", "e", "s", "e", "t">>, <<"s", "l", "o", "w">>, <<"\t">> }

RECURSIVE Texts(_, _)
\* the texts of at most n words, joined by single spaces
Texts(words, n) ==
    IF n = 0 THEN {<< >>}
    ELSE LET shorter == Texts(words, n - 1)
         IN  shorter \cup
             {IF t = << >> THEN w ELSE t \o <<" ">> \o w :
                 t \in shorter, w \in words}

\* values of the "message" field of the request body
MESSAGES == {None} \cup {Some(s) : s \in Texts(MESSAGE_WORDS, MaxMessageWords)}

\* what the model may answer first
REPLY_HEADS ==
    { << >>,
      <<"s", "o", "r", "r", "y">>,
      <<"[", "1", "]">>,
      <<"{", "\"", "p", "r", "i", "o", "r", "i", "t", "y", "\"", ":", "\"", "h", "i", "g", "h", "\"", ",", "\"", "d", "e", "p", "a", "r", "t", "m", "e", "n", "t", "\"", ":", "\"", "n", "e", "t", "w", "o", "r", "k", "\"", "}">>,
      <<"{", "\"", "p", "r", "i", "o", "r", "i", "t", "y", "\"", ":", "\"", "c", "r", "i", "t", "i", "c", "a", "l", "\"", ",", "\"", "d", "e", "p", "a", "r", "t", "m", "e", "n", "t", "\"", ":", "\"", "b", "i", "l", "l", "i", "n", "g", "\"", "}">>,
      <<"{", "\"", "p", "r", "i", "o", "r", "i", "t", "y", "\"", ":", " ", "\"", " ", "H", "i", "g", "h", " ", "\"", ",", " ", "\"", "d", "e", "p", "a", "r", "t", "m", "e", "n", "t", "\"", ":", " ", "\"", "b", "i", "l", "l", "i", "n", "g", "\"", "}">>,
      <<"{", "\"", "d", "e", "p", "a", "r", "t", "m", "e", "n", "t", "\"", ":", "\"", "H", "a", "r", "d", "w", "a", "r", "e", "\"", "}">>,
      <<"{", "\"", "p", "r", "i", "o", "r", "i", "t", "y", "\"", ":", "n", "u", "l", "l", ",", "\"", "d", "e", "p", "a", "r", "t", "m", "e", "n", "t", "\"", ":", "\"", "a", "c", "c", "o", "u", "n", "t", "\"", "}">>,
      <<"{", "\"", "p", "r", "i", "o", "r", "i", "t", "y", "\"", ":", "3", ",", "\"", "d", "e", "p", "a", "r", "t", "m", "e", "n", "t", "\"", ":", "\"", "n", "e", "t", "w", "o", "r", "k", "\"", "}">>,
      <<"{", "\"", "p", "r", "i", "o", "r", "i", "t", "y", "\"", ":", "0", ",", "\"", "d", "e", "p", "a", "r", "t", "m", "e", "n", "t", "\"", ":", "\"", "S", "o", "f", "t", "w", "a", "r", "e", "\"", "}">>,
      <<"S", "u", "r", "e", ":", "\n", "{", "\"", "p", "r", "i", "o", "r", "i", "t", "y", "\"", ":", "\"", "l", "o", "w", "\"", ",", "\"", "d", "e", "p", "a", "r", "t", "m", "e", "n", "t", "\"", ":", "\"", "n", "e", "t", "w", "o", "r", "k", "\"", "}">>,
      <<"{", "\"", "p", "r", "i", "o", "r", "i", "t", "y", "\"", ":", "\"", "l", "o", "w", "\"">>,
      <<"{", "\"", "p", "r", "i", "o", "r", "i", "t", "y", "\"", ":", "\"", "m", "e", "d", "i", "u", "m", "\"", ",", "\"", "d", "e", "p", "a", "r", "t", "m", "e", "n", "t", "\"", ":", "\"", "s", "o", "f", "t", "w", "a", "r", "e", "\"", ",", "\"", "w", "h", "y", "\"", ":", "{", "\"", "n", "\"", ":", "[", "0", ",", "t", "r", "u", "e", "]", "}", "}">> }

\* what it may add after that
REPLY_TRAILERS == { <<" ", "o", "k", ".">>, <<" ", "{", "\"", "n", "o", "t", "e", "\"", ":", "1", "}">> }

RECURSIVE Repeat(_, _)
Repeat(s, n) == IF n = 0 THEN << >> ELSE s \o Repeat(s, n - 1)

\* values of resp.text
REPLIES ==
    {h \o Repeat(t, n) : h \in REPLY_HEADS, t \in REPLY_TRAILERS, n \in 0..MaxTrailers}

(***************************************************************************)
(* The service                                                             *)
(***************************************************************************)

VARIABLES
    model,           \* TRUE when the module-level model handle is set
    CLASSIFIER_KEY,  \* the shared secret, None when not configured
    pc,              \* where the request being served is
    header,          \* its x-classifier-key header
    title,           \* the "title" field of its body
    message,         \* the "message" field of its body
    reply,           \* the outcome of model.generate_content
    response,        \* what classify returned
    modelCalls,      \* calls of model.generate_content in this request
    fallbackCalls    \* calls of _fallback_classify in this request

vars == <<model, CLASSIFIER_KEY, pc, header, title, message, reply, response,
          modelCalls, fallbackCalls>>

NoReply == [kind |-> "none", text |-> << >>]

Raised == [kind |-> "raises", text |-> << >>]

Answered(raw) == [kind |-> "text", text |-> raw]

NoBody == Body(<< >>, << >>, 0)

NoResponse == [status |-> 0, error |-> "", body |-> NoBody]

\* jsonify({"error": "Unauthorized"}), 401
Unauthorized == [status |-> 401, error |-> "Unauthorized", body |-> NoBody]

\* jsonify(body), with Flask's default status
Jsonify(body) == [status |-> 200, error |-> "", body |-> body]

\* title = (data.get("title") or "").strip(), and the same for message
Field(x) == Strip(OrEmpty(x))

\* the text without the final strip()
TextOf_unstripped(t, m) == Field(t) \o <<" ">> \o Field(m)

\* text = (title + " " + message).strip()
TextOf(t, m) == Strip(Field(t) \o <<" ">> \o Field(m))

\* module level: the handle is set when GEMINI_API_KEY is set and the
\* configuration of the client does not raise
Init ==
    /\ \E keySet \in BOOLEAN, initRaises \in BOOLEAN :
           model = (keySet /\ ~initRaises)
    /\ CLASSIFIER_KEY \in KEYS
    /\ pc = "idle"
    /\ header = None
    /\ title = None
    /\ message = None
    /\ reply = NoReply
    /\ response = NoResponse
    /\ modelCalls = 0
    /\ fallbackCalls = 0

\* CLASSIFIER_KEY and request.headers.get("x-classifier-key") != CLASSIFIER_KEY
Rejects(key, h) == key # None /\ key[1] # << >> /\ h # key

\* a handler that never tests the handle
NotReady_never(handle) == FALSE

\* "if not model": TRUE when the fallback is taken because no handle is set
NotReady(handle) == ~handle

\* classify, from its entry to the return or to the call of the model
Classify(h, t, m) ==
    /\ pc = "idle"
    /\ header' = h
    /\ title' = t
    /\ message' = m
    /\ reply' = NoReply
    /\ UNCHANGED <<model, CLASSIFIER_KEY>>
    /\ IF Rejects(CLASSIFIER_KEY, h)
       THEN /\ response' = Unauthorized
            /\ pc' = "done"
            /\ modelCalls' = 0
            /\ fallbackCalls' = 0
       ELSE IF TextOf(t, m) = << >>
       THEN /\ response' = Jsonify(Body(MEDIUM, OTHER_DEPT,
                                        estimate_minutes(OTHER_DEPT, MEDIUM)))
            /\ pc' = "done"
            /\ modelCalls' = 0
            /\ fallbackCalls' = 0
       ELSE IF NotReady(model)
       THEN /\ response' = Jsonify(_fallback_classify(TextOf(t, m)))
            /\ pc' = "done"
            /\ modelCalls' = 0
            /\ fallbackCalls' = 1
       ELSE /\ response' = NoResponse
            /\ pc' = "calling"
            /\ modelCalls' = 1
            /\ fallbackCalls' = 0

\* model.generate_content returns and resp.text is raw
ModelReturns(raw) ==
    /\ pc = "calling"
    /\ reply' = Answered(raw)
    /\ pc' = "returned"
    /\ UNCHANGED <<model, CLASSIFIER_KEY, header, title, message, response,
                   modelCalls, fallbackCalls>>

\* model.generate_content, or reading resp.text, raises
ModelRaises ==
    /\ pc = "calling"
    /\ reply' = Raised
    /\ pc' = "returned"
    /\ UNCHANGED <<model, CLASSIFIER_KEY, header, title, message, response,
                   modelCalls, fallbackCalls>>

\* the try block after the call: TRUE when it raises
TryRaises(r) ==
    \/ r.kind = "raises"
    \/ LET parsed == json_loads(Payload(r.text))
       IN  \/ ~parsed.ok
           \/ parsed.v.t # "dict"
           \/ NormalizeRaises(DictGet(parsed.v, <<"p", "r", "i", "o", "r", "i", "t", "y">>))
           \/ NormalizeRaises(DictGet(parsed.v, <<"d", "e", "p", "a", "r", "t", "m", "e", "n", "t">>))

\* the body the try block returns when it does not raise
TryBody(r) ==
    LET parsed     == json_loads(Payload(r.text)).v
        priority   == _normalize(DictGet(parsed, <<"p", "r", "i", "o", "r", "i", "t", "y">>), PRIORITIES, MEDIUM)
        department == _normalize(DictGet(parsed, <<"d", "e", "p", "a", "r", "t", "m", "e", "n", "t">>), DEPARTMENTS,
                                 OTHER_DEPT)
    IN  Body(priority, department, estimate_minutes(department, priority))

\* a handler without the except clause: the error reaches Flask, which
\* answers 500
Resume_propagates ==
    /\ pc = "returned"
    /\ pc' = "done"
    /\ IF TryRaises(reply)
       THEN response' = [status |-> 500, error |-> "Internal Server Error",
                         body |-> NoBody]
       ELSE response' = Jsonify(TryBody(reply))
    /\ UNCHANGED <<model, CLASSIFIER_KEY, header, title, message, reply,
                   modelCalls, fallbackCalls>>

\* classify, from the return of the model call to its own return
Resume ==
    /\ pc = "returned"
    /\ pc' = "done"
    /\ IF TryRaises(reply)
       THEN /\ response' = Jsonify(_fallback_classify(TextOf(title, message)))
            /\ fallbackCalls' = fallbackCalls + 1
       ELSE /\ response' = Jsonify(TryBody(reply))
            /\ UNCHANGED fallbackCalls
    /\ UNCHANGED <<model, CLASSIFIER_KEY, header, title, message, reply,
                   modelCalls>>

\* Flask sends the response; the locals of the request are gone and the
\* worker takes the next request
Respond ==
    /\ pc = "done"
    /\ pc' = "idle"
    /\ header' = None
    /\ title' = None
    /\ message' = None
    /\ reply' = NoReply
    /\ response' = NoResponse
    /\ modelCalls' = 0
    /\ fallbackCalls' = 0
    /\ UNCHANGED <<model, CLASSIFIER_KEY>>

Next ==
    \/ \E h \in HEADERS, t \in TITLES, m \in MESSAGES : Classify(h, t, m)
    \/ \E raw \in REPLIES : ModelReturns(raw)
    \/ ModelRaises
    \/ Resume
    \/ Respond

Spec == Init /\ [][Next]_vars

\* the handler runs on once the call of the model has returned; nothing
\* makes the model answer
FairSpec == Spec /\ WF_vars(Resume)

(***************************************************************************)
(* Properties                                                              *)
(***************************************************************************)

\* the request being served passed the shared-secret check
Authorized == CLASSIFIER_KEY = None \/ header = CLASSIFIER_KEY

\* title and message hold nothing but whitespace
Blank ==
    /\ \A i \in 1..Len(OrEmpty(title)) : OrEmpty(title)[i] \in WHITESPACE
    /\ \A i \in 1..Len(OrEmpty(message)) : OrEmpty(message)[i] \in WHITESPACE

\* the ticket text of the request being served
text == TextOf(title, message)

\* the model answered and its answer decodes to a JSON object
ParsedObject ==
    /\ reply.kind = "text"
    /\ json_loads(Payload(reply.text)).ok
    /\ json_loads(Payload(reply.text)).v.t = "dict"

\* the raw label of that object: a decoded value, None when absent
RawLabel(key) == DictGet(json_loads(Payload(reply.text)).v, key)

\* a label as the specification admits it: a string, null or absent
StringOrAbsent(v) == v.t \in {"str", "None"}

PrimaryFailed ==
    \/ reply.kind = "raises"
    \/ /\ reply.kind = "text"
       /\ \/ reply.text = << >>
          \/ ~json_loads(Payload(reply.text)).ok
          \/ json_loads(Payload(reply.text)).v.t # "dict"

\* C2: when the model was called and the primary path failed (the call
\* raised, the text was empty, the payload did not parse, or it parsed to
\* something that is no object), the response is the fallback's
\* classification of the text with status 200.
C2_FailureFallsBack ==
    (pc = "done" /\ PrimaryFailed) =>
        /\ text # << >>
        /\ response = Jsonify(_fallback_classify(text))
        /\ response.status = 200
        /\ response.error = ""

\* C2 witness: the reply parsed, but to a list
C2_Witness ==
    /\ pc = "done"
    /\ reply.kind = "text"
    /\ json_loads(Payload(reply.text)).ok
    /\ json_loads(Payload(reply.text)).v.t = "list"
    /\ response.body.department = NETWORK

\* C3: a blank text gives medium, other, 60 without a call of the model or
\* of the fallback, whether or not the model is available.
C3_BlankTextDefault ==
    (pc = "done" /\ Authorized /\ Blank) =>
        /\ response = Jsonify(Body(MEDIUM, OTHER_DEPT, 60))
        /\ modelCalls = 0
        /\ fallbackCalls = 0
        /\ reply = NoReply

\* C3 witness: whitespace-only title and message while the model is available
C3_Witness ==
    /\ pc = "done"
    /\ model
    /\ title = Some(<<" ", " ">>)
    /\ message = Some(<<"\t">>)
    /\ response.status = 200

\* C4: no step changes the model handle, and while it is unset the model is
\* never called and every authorized request with a non-blank text returns
\* the fallback's classification of the text.
C4_AvailabilityFixed ==
    [][/\ model' = model
       /\ ~model =>
            /\ pc' # "calling"
            /\ modelCalls' = 0
            /\ (pc' = "done" /\ Authorized' /\ ~Blank') =>
                   response' = Jsonify(_fallback_classify(text'))]_vars

\* C4 witness: a request served by the fallback because the handle is unset
C4_Witness ==
    /\ pc = "done"
    /\ ~model
    /\ Authorized
    /\ ~Blank
    /\ fallbackCalls = 1
    /\ reply = NoReply

\* base[d] * multiplier[p] rounded to the nearest integer, halves up, for
\* the table C6 gives (multipliers in quarters)
HalfUpEstimate(d, p) ==
    LET base == CASE d = ACCOUNT -> 45 [] d = NETWORK -> 90
                  [] d = SOFTWARE -> 120 [] d = HARDWARE -> 180
                  [] d = OTHER_DEPT -> 60
        quarters == CASE p = LOW -> 3 [] p = MEDIUM -> 4 [] p = HIGH -> 6
    IN  (2 * base * quarters + 4) \div 8

\* the label C5 expects from a raw label
Expected(v, allowed, default) ==
    IF v.t = "str" /\ Lower(Strip(v.s)) \in allowed
    THEN Lower(Strip(v.s)) ELSE default

\* a label _normalize takes: a string, or a value Python holds false (null
\* or absent, 0, false, an empty array or object)
StringOrFalse(v) == v.t = "str" \/ ~Truthy(v)

\* C5 as stated: whenever the reply decodes to an object, each label is
\* normalized on its own (trimmed and lower-cased if that is in its
\* vocabulary, else its default), the other label is kept and the fallback
\* is not used.
C5_AnyObjectNormalized ==
    (pc = "done" /\ ParsedObject) =>
        /\ response.status = 200
        /\ fallbackCalls = 0
        /\ response.body.priority =
               Expected(RawLabel(<<"p", "r", "i", "o", "r", "i", "t", "y">>), PRIORITIES, MEDIUM)
        /\ response.body.department =
               Expected(RawLabel(<<"d", "e", "p", "a", "r", "t", "m", "e", "n", "t">>), DEPARTMENTS, OTHER_DEPT)

\* C5 amended: the same when each of the two labels is a string or a value
\* Python holds false; critical/billing gives medium, other, 60.
C5_IndependentNormalization ==
    (/\ pc = "done"
     /\ ParsedObject
     /\ StringOrFalse(RawLabel(<<"p", "r", "i", "o", "r", "i", "t", "y">>))
     /\ StringOrFalse(RawLabel(<<"d", "e", "p", "a", "r", "t", "m", "e", "n", "t">>))) =>
        /\ response.status = 200
        /\ fallbackCalls = 0
        /\ response.body.priority =
               Expected(RawLabel(<<"p", "r", "i", "o", "r", "i", "t", "y">>), PRIORITIES, MEDIUM)
        /\ response.body.department =
               Expected(RawLabel(<<"d", "e", "p", "a", "r", "t", "m", "e", "n", "t">>), DEPARTMENTS, OTHER_DEPT)
        /\ response.body.estimated_minutes =
               HalfUpEstimate(response.body.department, response.body.priority)
        /\ (/\ RawLabel(<<"p", "r", "i", "o", "r", "i", "t", "y">>).s = <<"c", "r", "i", "t", "i", "c", "a", "l">>
            /\ RawLabel(<<"d", "e", "p", "a", "r", "t", "m", "e", "n", "t">>).s = <<"b", "i", "l", "l", "i", "n", "g">>) =>
               response.body = Body(MEDIUM, OTHER_DEPT, 60)

\* C5 witness: a padded, capitalised priority is kept while the department
\* beside it is outside the vocabulary
C5_Witness ==
    /\ pc = "done"
    /\ ParsedObject
    /\ RawLabel(<<"p", "r", "i", "o", "r", "i", "t", "y">>).s = <<" ", "H", "i", "g", "h", " ">>
    /\ RawLabel(<<"d", "e", "p", "a", "r", "t", "m", "e", "n", "t">>).s = <<"b", "i", "l", "l", "i", "n", "g">>
    /\ response.body.priority = HIGH
    /\ response.body.department = OTHER_DEPT

\* C6: every classification returned carries the estimate of its own two
\* labels, and over the vocabulary estimate_minutes is base * multiplier
\* rounded half up (account/low 34, network/low 68, account/high 68,
\* network/high 135).
C6_EstimateOfReturnedLabels ==
    /\ (pc = "done" /\ response.status = 200) =>
           response.body.estimated_minutes =
               HalfUpEstimate(response.body.department, response.body.priority)
    /\ \A d \in DEPARTMENTS, p \in PRIORITIES :
           estimate_minutes(d, p) = HalfUpEstimate(d, p)
    /\ estimate_minutes(ACCOUNT, LOW) = 34
    /\ estimate_minutes(NETWORK, LOW) = 68
    /\ estimate_minutes(ACCOUNT, HIGH) = 68
    /\ estimate_minutes(NETWORK, HIGH) = 135

\* C6 witness: a returned estimate whose exact value, 67.5, is a tie
C6_Witness ==
    /\ pc = "done"
    /\ response.status = 200
    /\ response.body.department = NETWORK
    /\ response.body.priority = LOW
    /\ response.body.estimated_minutes = 68

\* C7: every request whose model call is outstanding returns, and the model
\* is called at most once in a request.
C7_EveryRequestReturns ==
    /\ [](modelCalls <= 1)
    /\ (pc = "calling") ~> (pc = "done")

\* C8: the fallback takes the first matching department group in the order
\* account, network, hardware, software, else other, matching substrings
\* of the lower-cased text; its priority depends on the priority keywords
\* alone, high before medium, else low; "VPN is down, urgent" gives
\* network, high, 135 and "password reset" gives account, low, 34.
C8_FallbackRules ==
    (pc = "done" /\ fallbackCalls = 1) =>
        LET t == Lower(text)
            d == response.body.department
            p == response.body.priority
            acc == AnyIn(ACCOUNT_KEYWORDS, t)
            net == AnyIn(NETWORK_KEYWORDS, t)
            hw  == AnyIn(HARDWARE_KEYWORDS, t)
            sw  == AnyIn(SOFTWARE_KEYWORDS, t)
            hi  == AnyIn(HIGH_KEYWORDS, t)
            med == AnyIn(MEDIUM_KEYWORDS, t)
        IN  /\ (d = ACCOUNT) <=> acc
            /\ (d = NETWORK) <=> (~acc /\ net)
            /\ (d = HARDWARE) <=> (~acc /\ ~net /\ hw)
            /\ (d = SOFTWARE) <=> (~acc /\ ~net /\ ~hw /\ sw)
            /\ (d = OTHER_DEPT) <=> (~acc /\ ~net /\ ~hw /\ ~sw)
            /\ (p = HIGH) <=> hi
            /\ (p = MEDIUM) <=> (~hi /\ med)
            /\ (p = LOW) <=> (~hi /\ ~med)
            /\ (text = <<"V", "P", "N", " ", "i", "s", " ", "d", "o", "w", "n", ",", " ", "u", "r", "g", "e", "n", "t">>) =>
                   response.body = Body(HIGH, NETWORK, 135)
            /\ (text = <<"p", "a", "s", "s", "w", "o", "r", "d", " ", "r", "e", "s", "e", "t">>) =>
                   response.body = Body(LOW, ACCOUNT, 34)

\* C8 witness: a text with a network and an account keyword, and a high
\* priority keyword, classified by the fallback
C8_Witness ==
    /\ pc = "done"
    /\ fallbackCalls = 1
    /\ text = <<"V", "P", "N", " ", "i", "s", " ", "d", "o", "w", "n", ",", " ", "r", "e", "s", "e", "t">>
    /\ response.body.department = ACCOUNT
    /\ response.body.priority = HIGH

\* C9: a text that the fallback classifies and that holds "can't work" or
\* "won't boot" written with the curly apostrophe gets priority high.
C9_CurlyApostropheAccepted ==
    (/\ pc = "done"
     /\ fallbackCalls = 1
     /\ \/ Contains(<<"c", "a", "n", "U+2019", "t", " ", "w", "o", "r", "k">>, Lower(text))
        \/ Contains(<<"w", "o", "n", "U+2019", "t", " ", "b", "o", "o", "t">>, Lower(text))) =>
        response.body.priority = HIGH

RECURSIVE ObjectEnd(_, _, _)
\* the index of the "}" that closes the braces open at i (depth of them),
\* 0 when they are never closed
ObjectEnd(raw, i, depth) ==
    IF i > Len(raw) THEN 0
    ELSE IF raw[i] = "{" THEN ObjectEnd(raw, i + 1, depth + 1)
    ELSE IF raw[i] = "}"
    THEN IF depth = 1 THEN i ELSE ObjectEnd(raw, i + 1, depth - 1)
    ELSE ObjectEnd(raw, i + 1, depth)

\* the first top-level brace-delimited object of raw, << >> when there is none
FirstObject(raw) ==
    IF \A i \in 1..Len(raw) : raw[i] # "{" THEN << >>
    ELSE LET a == CHOOSE i \in 1..Len(raw) :
                      raw[i] = "{" /\ \A j \in 1..(i - 1) : raw[j] # "{"
             b == ObjectEnd(raw, a + 1, 1)
         IN  IF b = 0 THEN << >> ELSE SubSeq(raw, a, b)

\* C10: when the first top-level object of the reply is a JSON object with
\* labels that are strings, null or absent, its labels are normalized and
\* returned and the fallback is not used, whatever follows it; a reply with
\* no brace-delimited object is parsed as a whole.
C10_FirstObjectIsParsed ==
    (pc = "done" /\ reply.kind = "text") =>
        LET first == FirstObject(reply.text)
            obj   == json_loads(first)
        IN  /\ (/\ first # << >>
                /\ obj.ok
                /\ obj.v.t = "dict"
                /\ StringOrAbsent(DictGet(obj.v, <<"p", "r", "i", "o", "r", "i", "t", "y">>))
                /\ StringOrAbsent(DictGet(obj.v, <<"d", "e", "p", "a", "r", "t", "m", "e", "n", "t">>))) =>
                   /\ fallbackCalls = 0
                   /\ response.body.priority =
                          Expected(DictGet(obj.v, <<"p", "r", "i", "o", "r", "i", "t", "y">>), PRIORITIES, MEDIUM)
                   /\ response.body.department =
                          Expected(DictGet(obj.v, <<"d", "e", "p", "a", "r", "t", "m", "e", "n", "t">>), DEPARTMENTS,
                                   OTHER_DEPT)
            /\ (first = << >>) =>
                   response = Jsonify(_fallback_classify(text))

=============================================================================
